---- MODULE Spec2Model ----
(***************************************************************************)
(* Model of pa4/parser.py: the statement dispatcher `parse`, the           *)
(* two-stack expression parser `parse_expression` and `reduce`.            *)
(*                                                                         *)
(* The token stream is revealed lazily: `toks` holds the tokens the parser *)
(* has read plus its current lookahead, `pos` counts the tokens read.      *)
(* Every handler is an operator from a parser state (a record) to the      *)
(* parser state after it; the actions apply these operators to the         *)
(* variables, and the pure runs (parse, parse_expression) iterate the      *)
(* same operators over a given token sequence.                             *)
(***************************************************************************)
EXTENDS Integers, Sequences, FiniteSets, TLC

VARIABLES toks, pos, pastEOF, pc, lhs, rhs, opstack, valstack, lparen_depths,
          ret, err

vars == <<toks, pos, pastEOF, pc, lhs, rhs, opstack, valstack, lparen_depths,
          ret, err>>

(* Bounds of the model: the longest token stream (EOF included), and the most
   pairs of parentheses an expression is wrapped in. *)
MaxToks == 10
MaxWrap == 3

(* The longest stream (EOF included) handed to parse_expression directly. *)
MaxExprToks == 10

(* The longest stream (EOF included) on which the end of parse is awaited. *)
MaxFairToks == 10

(* Python's None, and a present optional value. *)
None == <<>>
Some(v) == <<v>>

(***************************************************************************)
(* Tokens (tokens.py): a tokentype and the optional payloads.              *)
(***************************************************************************)
Token(tt, name, lexeme, intvalue) ==
    [tokentype |-> tt, name |-> name, lexeme |-> lexeme, intvalue |-> intvalue]

Bare(tt) == Token(tt, None, None, None)

EOFTok == Bare("EOF")

(* What peek/read yield once the stream is exhausted (after EOF). *)
NoToken == Bare("NOTOKEN")

operatortypes == {"PLUS", "MINUS", "TIMES", "DIVIDE", "EXPONENT"}

(* A slip: TIMES given the precedence of PLUS. *)
precedence_TimesLow(tt) ==
    CASE tt = "EXPONENT" -> 3
      [] tt = "TIMES" -> 1
      [] tt = "DIVIDE" -> 2
      [] tt = "PLUS" -> 1
      [] tt = "MINUS" -> 1

precedence(tt) ==
    CASE tt = "EXPONENT" -> 3
      [] tt = "TIMES" -> 2
      [] tt = "DIVIDE" -> 2
      [] tt = "PLUS" -> 1
      [] tt = "MINUS" -> 1

(* A slip: every operator left-associative. *)
leftassoc_AllLeft(tt) == TRUE

leftassoc(tt) ==
    CASE tt = "EXPONENT" -> FALSE
      [] tt = "TIMES" -> TRUE
      [] tt = "DIVIDE" -> TRUE
      [] tt = "PLUS" -> TRUE
      [] tt = "MINUS" -> TRUE

(* The tokens a stream is drawn from: every kind, with and without payload. *)
Names == {"x"}
IntValues == {1}

TokenAlphabet ==
    {Token("PRINT", n, None, None) : n \in {None} \cup {Some(x) : x \in Names}}
    \cup {Token("INTDEC", n, None, None) : n \in {None} \cup {Some(x) : x \in Names}}
    \cup {Token("VARREF", None, l, None) : l \in {None} \cup {Some(x) : x \in Names}}
    \cup {Token("INTLIT", None, None, v) : v \in {None} \cup {Some(i) : i \in IntValues}}
    \cup {Bare(tt) : tt \in operatortypes \cup {"ASSIGN", "LPAREN", "RPAREN", "EOF"}}

(***************************************************************************)
(* AST nodes (acdcast.py).                                                 *)
(***************************************************************************)
PrintNode(name) == [node |-> "PrintNode", name |-> name]
IntDclNode(name) == [node |-> "IntDclNode", name |-> name]
AssignNode(name, expr) == [node |-> "AssignNode", name |-> name, expr |-> expr]
IntLitNode(value) == [node |-> "IntLitNode", value |-> value]
VarRefNode(name) == [node |-> "VarRefNode", name |-> name]
BinOpNode(op, left, right) ==
    [node |-> "BinOpNode", op |-> op, left |-> left, right |-> right]

(***************************************************************************)
(* Parser states and the token stream (tokenstream.py).                    *)
(***************************************************************************)
NewState(ts, start) ==
    [toks |-> ts, pos |-> 0, pastEOF |-> FALSE, pc |-> start,
     lhs |-> None, rhs |-> None,
     opstack |-> <<>>, valstack |-> <<>>, lparen_depths |-> <<>>,
     ret |-> None, err |-> None]

(* ts.peek(): the next token, not consumed. *)
peek(s) == IF s.pos < Len(s.toks) THEN s.toks[s.pos + 1] ELSE NoToken

(* The stream has been touched (peeked or read): past EOF if nothing is left. *)
Touch(s) == [s EXCEPT !.pastEOF = @ \/ s.pos >= Len(s.toks)]

(* ts.read(): consume the next token. *)
read(s) == [Touch(s) EXCEPT !.pos = IF s.pos < Len(s.toks) THEN s.pos + 1 ELSE s.pos]

(* raise ParseError(msg): the call chain unwinds to the caller of parse. *)
Raise(s, msg) == [s EXCEPT !.pc = "error", !.err = msg]

Top(stack) == stack[Len(stack)]
Pop(stack) == SubSeq(stack, 1, Len(stack) - 1)

(***************************************************************************)
(* expect (parser.py 9-13).                                                *)
(***************************************************************************)
expect(s, expectedtype) ==
    LET tok == peek(s)
        p == Touch(s)
    IN IF tok.tokentype # expectedtype
       THEN Raise(p, <<"expected but found", expectedtype, tok.tokentype>>)
       ELSE read(p)

(* A slip: the operands popped in the wrong order. *)
reduce_SwapsOperands(s) ==
    IF Len(s.opstack) < 1 THEN Raise(s, <<"mismatched parentheses">>)
    ELSE IF Len(s.valstack) < 2
    THEN IF Len(s.valstack) = 0
         THEN Raise(s, <<"expected two operands for operator", Top(s.opstack)>>)
         ELSE Raise(s, <<"expected operand or lparen after operator">>)
    ELSE LET op == Top(s.opstack)
             left == Top(s.valstack)
             right == Top(Pop(s.valstack))
         IN [s EXCEPT !.opstack = Pop(s.opstack),
                      !.valstack = Append(Pop(Pop(s.valstack)),
                                          BinOpNode(op, left, right))]

(* A slip: one message for every shortage of operands. *)
reduce_OneMessage(s) ==
    IF Len(s.opstack) < 1 THEN Raise(s, <<"mismatched parentheses">>)
    ELSE IF Len(s.valstack) < 2
    THEN Raise(s, <<"expected two operands for operator", Top(s.opstack)>>)
    ELSE LET op == Top(s.opstack)
             right == Top(s.valstack)
             left == Top(Pop(s.valstack))
         IN [s EXCEPT !.opstack = Pop(s.opstack),
                      !.valstack = Append(Pop(Pop(s.valstack)),
                                          BinOpNode(op, left, right))]

(***************************************************************************)
(* reduce (parser.py 158-168), on the two stacks of the state.             *)
(***************************************************************************)
reduce(s) ==
    IF Len(s.opstack) < 1 THEN Raise(s, <<"mismatched parentheses">>)
    ELSE IF Len(s.valstack) < 2
    THEN IF Len(s.valstack) = 0
         THEN Raise(s, <<"expected two operands for operator", Top(s.opstack)>>)
         ELSE Raise(s, <<"expected operand or lparen after operator">>)
    ELSE LET op == Top(s.opstack)
             right == Top(s.valstack)
             left == Top(Pop(s.valstack))
         IN [s EXCEPT !.opstack = Pop(s.opstack),
                      !.valstack = Append(Pop(Pop(s.valstack)),
                                          BinOpNode(op, left, right))]

(***************************************************************************)
(* parse_expression (parser.py 50-155): one operator per branch of the     *)
(* main loop, each applied with the loop guard (lookahead is not EOF) and  *)
(* the branch's test true.                                                 *)
(***************************************************************************)
(* A slip: an opening parenthesis accepted after an operand. *)
FollowOK_AllowsLParen(next) ==
    next.tokentype \in operatortypes \cup {"RPAREN", "EOF", "LPAREN"}

(* The follow-token test of lines 87 and 97. *)
FollowOK(next) ==
    \/ next.tokentype \in operatortypes
    \/ next.tokentype = "RPAREN"
    \/ next.tokentype = "EOF"

(* Lines 82-90: an integer literal. *)
IntLitBranch(s) ==
    LET tok == peek(s)
        s1 == read(Touch(Touch(s)))
    IN IF tok.intvalue = None
       THEN Raise(s1, <<"malformed INTLIT token">>)
       ELSE LET next == peek(s1)
                s2 == Touch(s1)
            IN IF FollowOK(next)
               THEN [s2 EXCEPT !.valstack = Append(@, IntLitNode(tok.intvalue[1]))]
               ELSE Raise(s2, <<"expected operator or rparen after int literal">>)

(* A slip: the leaf named from the token's name field, not its lexeme. *)
VarRefBranch_UsesName(s) ==
    LET tok == peek(s)
        s1 == read(Touch(Touch(s)))
        name == IF tok.name # None /\ tok.name[1] # "" THEN tok.name[1] ELSE ""
        s2 == [s1 EXCEPT !.valstack = Append(@, VarRefNode(name))]
        next == peek(s2)
        s3 == Touch(s2)
    IN IF FollowOK(next)
       THEN s3
       ELSE Raise(s3, <<"expected operator or rparen after variable reference">>)

(* Lines 92-99: a variable reference. *)
VarRefBranch(s) ==
    LET tok == peek(s)
        s1 == read(Touch(Touch(s)))
        name == IF tok.lexeme # None /\ tok.lexeme[1] # "" THEN tok.lexeme[1] ELSE ""
        s2 == [s1 EXCEPT !.valstack = Append(@, VarRefNode(name))]
        next == peek(s2)
        s3 == Touch(s2)
    IN IF FollowOK(next)
       THEN s3
       ELSE Raise(s3, <<"expected operator or rparen after variable reference">>)

(* A slip: the marker pushed without its depth. *)
LParenBranch_NoDepth(s) ==
    LET s1 == read(Touch(Touch(s)))
    IN [s1 EXCEPT !.opstack = Append(@, "LPAREN")]

(* Lines 101-105: an opening parenthesis. *)
LParenBranch(s) ==
    LET s1 == read(Touch(Touch(s)))
    IN [s1 EXCEPT !.opstack = Append(@, "LPAREN"),
                  !.lparen_depths = Append(@, Len(s1.valstack))]

(* Lines 110-120: the loop of the RPAREN branch. *)
RECURSIVE RParenLoop(_, _)
RParenLoop(s, reduced) ==
    IF Len(s.opstack) = 0 THEN Raise(s, <<"mismatched parentheses">>)
    ELSE IF Top(s.opstack) = "LPAREN"
    THEN IF Len(s.lparen_depths) = 0
         THEN Raise([s EXCEPT !.opstack = Pop(@)], <<"IndexError: pop from empty list">>)
         ELSE LET s1 == [s EXCEPT !.opstack = Pop(@), !.lparen_depths = Pop(@)]
              IN IF ~reduced
                 THEN Raise(s1, <<"expected lparen, intlit, or varref after lparen">>)
                 ELSE s1
    ELSE LET r == reduce(s)
         IN IF r.err # None THEN r ELSE RParenLoop(r, TRUE)

(* Lines 107-121: a closing parenthesis. *)
RParenBranch(s) == RParenLoop(read(Touch(Touch(s))), FALSE)

(* Lines 131-140: reduce while the top operator binds at least as tightly. *)
RECURSIVE OperatorLoop(_, _)
OperatorLoop(s, incoming) ==
    IF Len(s.opstack) > 0 /\ Top(s.opstack) \in operatortypes
    THEN LET top == Top(s.opstack)
             top_prec == precedence(top)
             inc_prec == precedence(incoming)
         IN IF top_prec > inc_prec \/ (top_prec = inc_prec /\ leftassoc(top))
            THEN LET r == reduce(s)
                 IN IF r.err # None THEN r ELSE OperatorLoop(r, incoming)
            ELSE s
    ELSE s

(* A slip: no test for an operator right after an opening parenthesis. *)
OperatorBranch_NoGroupGuard(s) ==
    LET incoming == peek(s).tokentype
        s1 == read(Touch(Touch(s)))
    IN IF Len(s1.valstack) = 0
       THEN Raise(s1, <<"expected two operands for operator", incoming>>)
       ELSE LET r == OperatorLoop(s1, incoming)
            IN IF r.err # None THEN r
               ELSE [r EXCEPT !.opstack = Append(@, incoming)]

(* A slip: no test for an operator with no operand before it. *)
OperatorBranch_NoOperandCheck(s) ==
    LET incoming == peek(s).tokentype
        s1 == read(Touch(Touch(s)))
    IN IF /\ Len(s1.opstack) > 0 /\ Top(s1.opstack) = "LPAREN"
          /\ Len(s1.lparen_depths) > 0
          /\ Len(s1.valstack) = Top(s1.lparen_depths)
       THEN Raise(s1, <<"expected lparen, intlit, or varref after lparen">>)
       ELSE LET r == OperatorLoop(s1, incoming)
            IN IF r.err # None THEN r
               ELSE [r EXCEPT !.opstack = Append(@, incoming)]

(* Lines 123-143: an operator. *)
OperatorBranch(s) ==
    LET incoming == peek(s).tokentype
        s1 == read(Touch(Touch(s)))
    IN IF Len(s1.valstack) = 0
       THEN Raise(s1, <<"expected two operands for operator", incoming>>)
       ELSE IF /\ Len(s1.opstack) > 0 /\ Top(s1.opstack) = "LPAREN"
               /\ Len(s1.lparen_depths) > 0
               /\ Len(s1.valstack) = Top(s1.lparen_depths)
       THEN Raise(s1, <<"expected lparen, intlit, or varref after lparen">>)
       ELSE LET r == OperatorLoop(s1, incoming)
            IN IF r.err # None THEN r
               ELSE [r EXCEPT !.opstack = Append(@, incoming)]

(* A slip: the drain reduces whatever is on the operator stack, markers
   included. *)
RECURSIVE DrainLoop_ReducesMarkers(_)
DrainLoop_ReducesMarkers(s) ==
    IF Len(s.opstack) > 0
    THEN LET r == reduce(s)
         IN IF r.err # None THEN r ELSE DrainLoop_ReducesMarkers(r)
    ELSE s

(* A slip: an unclosed parenthesis dropped at EOF. *)
RECURSIVE DrainLoop_DropsLParen(_)
DrainLoop_DropsLParen(s) ==
    IF Len(s.opstack) > 0
    THEN IF Top(s.opstack) = "LPAREN"
         THEN DrainLoop_DropsLParen([s EXCEPT !.opstack = Pop(@)])
         ELSE LET r == reduce(s)
              IN IF r.err # None THEN r ELSE DrainLoop_DropsLParen(r)
    ELSE s

(* Lines 147-150: drain the operator stack at EOF. *)
RECURSIVE DrainLoop(_)
DrainLoop(s) ==
    IF Len(s.opstack) > 0
    THEN IF Top(s.opstack) = "LPAREN"
         THEN Raise(s, <<"mismatched parentheses">>)
         ELSE LET r == reduce(s)
              IN IF r.err # None THEN r ELSE DrainLoop(r)
    ELSE s

(* A slip: parse_expression consumes the EOF it stops at. *)
DrainAndReturn_ReadsEOF(s) ==
    LET r == DrainLoop(read(Touch(s)))
    IN IF r.err # None THEN r
       ELSE IF Len(r.valstack) # 1
       THEN Raise(r, <<"expression did not reduce to one AST">>)
       ELSE [r EXCEPT !.rhs = Some(Top(r.valstack)),
                      !.valstack = Pop(@),
                      !.pc = "returned"]

(* Lines 79, 147-155: the lookahead is EOF; drain and return the one node. *)
DrainAndReturn(s) ==
    LET r == DrainLoop(Touch(s))
    IN IF r.err # None THEN r
       ELSE IF Len(r.valstack) # 1
       THEN Raise(r, <<"expression did not reduce to one AST">>)
       ELSE [r EXCEPT !.rhs = Some(Top(r.valstack)),
                      !.valstack = Pop(@),
                      !.pc = "returned"]

(* A slip: a token that cannot be part of an expression ends the expression,
   leaving it to the caller's expect(EOF). *)
UnexpectedBranch_EndsExpression(s) == DrainAndReturn(s)

(* A slip: a token that cannot be part of an expression is neither read nor
   refused, and the loop comes round to it again. *)
UnexpectedBranch_LoopsOn(s) == Touch(Touch(s))

(* Line 145: any other token. *)
UnexpectedBranch(s) ==
    Raise(Touch(Touch(s)), <<"unexpected token in expression", peek(s).tokentype>>)

(* One iteration of the loop of lines 79-145, or the code after it. *)
ExprStep(s) ==
    LET tt == peek(s).tokentype
    IN CASE tt = "EOF" -> DrainAndReturn(s)
         [] tt = "INTLIT" -> IntLitBranch(s)
         [] tt = "VARREF" -> VarRefBranch(s)
         [] tt = "LPAREN" -> LParenBranch(s)
         [] tt = "RPAREN" -> RParenBranch(s)
         [] tt \in operatortypes -> OperatorBranch(s)
         [] OTHER -> UnexpectedBranch(s)

(***************************************************************************)
(* parse (parser.py 16-47): one operator per branch of the dispatcher.     *)
(***************************************************************************)
(* Lines 19-25. *)
ParsePrintBranch(s) ==
    LET t == peek(s)
        s1 == read(Touch(s))
    IN IF t.name = None
       THEN Raise(s1, <<"malformed PRINT token">>)
       ELSE LET s2 == expect(s1, "EOF")
            IN IF s2.err # None THEN s2
               ELSE [s2 EXCEPT !.pc = "done", !.ret = Some(PrintNode(t.name[1]))]

(* Lines 27-33. *)
ParseIntDecBranch(s) ==
    LET t == peek(s)
        s1 == read(Touch(s))
    IN IF t.name = None
       THEN Raise(s1, <<"malformed INTDEC token">>)
       ELSE LET s2 == expect(s1, "EOF")
            IN IF s2.err # None THEN s2
               ELSE [s2 EXCEPT !.pc = "done", !.ret = Some(IntDclNode(t.name[1]))]

(* Lines 35-38: read the left-hand side and ASSIGN, enter parse_expression
   (lines 51-53: the three stacks start empty). *)
ParseAssignBranch(s) ==
    LET t == peek(s)
        s1 == read(Touch(s))
        s2 == expect(s1, "ASSIGN")
    IN IF s2.err # None THEN s2
       ELSE [s2 EXCEPT !.lhs = Some(t), !.pc = "expr",
                       !.opstack = <<>>, !.valstack = <<>>, !.lparen_depths = <<>>]

(* A slip: a missing lexeme on the left-hand side defaulted to "", as in the
   expression. *)
AssignFinishBranch_DefaultsName(s) ==
    LET l == s.lhs[1]
        name == IF l.lexeme = None THEN "" ELSE l.lexeme[1]
        s2 == expect(s, "EOF")
    IN IF s2.err # None THEN s2
       ELSE [s2 EXCEPT !.pc = "done", !.ret = Some(AssignNode(name, s.rhs[1]))]

(* Lines 39-43: parse_expression has returned rhs. *)
AssignFinishBranch(s) ==
    LET l == s.lhs[1]
    IN IF l.lexeme = None
       THEN Raise(s, <<"malformed VARREF token on LHS">>)
       ELSE LET s2 == expect(s, "EOF")
            IN IF s2.err # None THEN s2
               ELSE [s2 EXCEPT !.pc = "done",
                               !.ret = Some(AssignNode(l.lexeme[1], s.rhs[1]))]

(* Lines 45-47. *)
ParseUnexpectedBranch(s) ==
    Raise(Touch(s), <<"expected PRINT, INTDCL/INTDEC, or VARREF; got", peek(s).tokentype>>)

(* One step of parse from the state s. *)
ParseStep(s) ==
    LET tt == peek(s).tokentype
    IN CASE s.pc = "parse" /\ tt = "PRINT" -> ParsePrintBranch(s)
         [] s.pc = "parse" /\ tt = "INTDEC" -> ParseIntDecBranch(s)
         [] s.pc = "parse" /\ tt = "VARREF" -> ParseAssignBranch(s)
         [] s.pc = "parse" /\ tt \notin {"PRINT", "INTDEC", "VARREF"} ->
                ParseUnexpectedBranch(s)
         [] s.pc = "expr" -> ExprStep(s)
         [] s.pc = "returned" -> AssignFinishBranch(s)
         [] OTHER -> s

(***************************************************************************)
(* Pure runs over a whole token sequence.                                  *)
(***************************************************************************)
RECURSIVE RunFrom(_)
RunFrom(s) == IF s.pc \in {"done", "error"} THEN s ELSE RunFrom(ParseStep(s))

(* parse(ts) on the stream ts. *)
parse(ts) == RunFrom(NewState(ts, "parse"))

RECURSIVE ExprRunFrom(_)
ExprRunFrom(s) == IF s.pc # "expr" THEN s ELSE ExprRunFrom(ExprStep(s))

(* parse_expression(ts) on the stream ts: ends with pc "returned" and the
   node in rhs, or with pc "error". *)
parse_expression(ts) == ExprRunFrom(NewState(ts, "expr"))

(***************************************************************************)
(* The state machine: the parser's state as variables, the stream revealed *)
(* one token at a time.                                                    *)
(***************************************************************************)
St ==
    [toks |-> toks, pos |-> pos, pastEOF |-> pastEOF, pc |-> pc,
     lhs |-> lhs, rhs |-> rhs,
     opstack |-> opstack, valstack |-> valstack, lparen_depths |-> lparen_depths,
     ret |-> ret, err |-> err]

(* The tokens that may come at position n + 1 of a stream of at most MaxToks
   tokens that ends in EOF. *)
NextTokens(n) == IF n + 1 >= MaxToks THEN {EOFTok} ELSE TokenAlphabet

(* The ways the stream continues by up to k tokens after the known ones. *)
RECURSIVE Continuations(_, _)
Continuations(ts, k) ==
    IF k = 0 \/ ts[Len(ts)] = EOFTok THEN {ts}
    ELSE UNION {Continuations(Append(ts, t), k - 1) : t \in NextTokens(Len(ts))}

(* The stream as far as the parser has looked: the tokens read and the
   lookahead. *)
Known(s) == [s EXCEPT !.toks = SubSeq(s.toks, 1, IF s.pos + 1 <= Len(s.toks)
                                                 THEN s.pos + 1 ELSE Len(s.toks))]

(* The variables take the values of the state r. *)
Becomes(r) ==
    \E x \in {r} :
    /\ toks' = x.toks
    /\ pos' = x.pos
    /\ pastEOF' = x.pastEOF
    /\ pc' = x.pc
    /\ lhs' = x.lhs
    /\ rhs' = x.rhs
    /\ opstack' = x.opstack
    /\ valstack' = x.valstack
    /\ lparen_depths' = x.lparen_depths
    /\ ret' = x.ret
    /\ err' = x.err

(* The current state with the next k tokens of the stream revealed: a handler
   that reads at most k tokens runs on one of these. *)
Revealed(k) == {[St EXCEPT !.toks = ts] : ts \in Continuations(toks, k)}

Init ==
    /\ toks \in {<<t>> : t \in TokenAlphabet}
    /\ pos = 0
    /\ pastEOF = FALSE
    /\ pc = "parse"
    /\ lhs = None
    /\ rhs = None
    /\ opstack = <<>>
    /\ valstack = <<>>
    /\ lparen_depths = <<>>
    /\ ret = None
    /\ err = None

LA == peek(St).tokentype

ParsePrint == pc = "parse" /\ LA = "PRINT" /\ \E s \in Revealed(1) : Becomes(Known(ParsePrintBranch(s)))

ParseIntDec == pc = "parse" /\ LA = "INTDEC" /\ \E s \in Revealed(1) : Becomes(Known(ParseIntDecBranch(s)))

ParseAssign == pc = "parse" /\ LA = "VARREF" /\ \E s \in Revealed(2) : Becomes(Known(ParseAssignBranch(s)))

ParseUnexpected ==
    pc = "parse" /\ LA \notin {"PRINT", "INTDEC", "VARREF"} /\ \E s \in Revealed(0) : Becomes(Known(ParseUnexpectedBranch(s)))

ExprIntLit == pc = "expr" /\ LA = "INTLIT" /\ \E s \in Revealed(1) : Becomes(Known(IntLitBranch(s)))

ExprVarRef == pc = "expr" /\ LA = "VARREF" /\ \E s \in Revealed(1) : Becomes(Known(VarRefBranch(s)))

ExprLParen == pc = "expr" /\ LA = "LPAREN" /\ \E s \in Revealed(1) : Becomes(Known(LParenBranch(s)))

ExprRParen == pc = "expr" /\ LA = "RPAREN" /\ \E s \in Revealed(1) : Becomes(Known(RParenBranch(s)))

ExprOperator == pc = "expr" /\ LA \in operatortypes /\ \E s \in Revealed(1) : Becomes(Known(OperatorBranch(s)))

ExprUnexpected ==
    /\ pc = "expr"
    /\ LA \notin operatortypes \cup {"EOF", "INTLIT", "VARREF", "LPAREN", "RPAREN"}
    /\ \E s \in Revealed(0) : Becomes(Known(UnexpectedBranch(s)))

ExprReturn == pc = "expr" /\ LA = "EOF" /\ \E s \in Revealed(0) : Becomes(Known(DrainAndReturn(s)))

AssignFinish == pc = "returned" /\ \E s \in Revealed(0) : Becomes(Known(AssignFinishBranch(s)))

Next ==
    \/ ParsePrint
    \/ ParseIntDec
    \/ ParseAssign
    \/ ParseUnexpected
    \/ ExprIntLit
    \/ ExprVarRef
    \/ ExprLParen
    \/ ExprRParen
    \/ ExprOperator
    \/ ExprUnexpected
    \/ ExprReturn
    \/ AssignFinish

Spec == Init /\ [][Next]_vars

TypeOK ==
    /\ pc \in {"parse", "expr", "returned", "done", "error"}
    /\ pos \in 0..MaxToks
    /\ Len(toks) <= MaxToks

(***************************************************************************)
(* parse_expression called on its own, on a stream of expression tokens    *)
(* (one token that is none, ASSIGN, included): the same handlers, the      *)
(* stream revealed from ExprAlphabet.                                      *)
(***************************************************************************)
ExprAlphabet ==
    {Token("INTLIT", None, None, Some(1)), Token("VARREF", None, Some("x"), None)}
    \cup {Bare(tt) : tt \in {"PLUS", "TIMES", "LPAREN", "RPAREN", "ASSIGN", "EOF"}}

ExprNextTokens(n) == IF n + 1 >= MaxExprToks THEN {EOFTok} ELSE ExprAlphabet

(* The current state with the token after the lookahead revealed. *)
ExprRevealed ==
    IF toks[Len(toks)] = EOFTok THEN {St}
    ELSE {[St EXCEPT !.toks = Append(toks, t)] : t \in ExprNextTokens(Len(toks))}

ExprInit ==
    /\ toks \in {<<t>> : t \in ExprAlphabet}
    /\ pos = 0
    /\ pastEOF = FALSE
    /\ pc = "expr"
    /\ lhs = None
    /\ rhs = None
    /\ opstack = <<>>
    /\ valstack = <<>>
    /\ lparen_depths = <<>>
    /\ ret = None
    /\ err = None

CallIntLit ==
    pc = "expr" /\ LA = "INTLIT" /\ \E s \in ExprRevealed : Becomes(Known(IntLitBranch(s)))

CallVarRef ==
    pc = "expr" /\ LA = "VARREF" /\ \E s \in ExprRevealed : Becomes(Known(VarRefBranch(s)))

CallLParen ==
    pc = "expr" /\ LA = "LPAREN" /\ \E s \in ExprRevealed : Becomes(Known(LParenBranch(s)))

CallRParen ==
    pc = "expr" /\ LA = "RPAREN" /\ \E s \in ExprRevealed : Becomes(Known(RParenBranch(s)))

CallOperator ==
    pc = "expr" /\ LA \in operatortypes /\ \E s \in ExprRevealed : Becomes(Known(OperatorBranch(s)))

CallUnexpected ==
    /\ pc = "expr"
    /\ LA \notin operatortypes \cup {"EOF", "INTLIT", "VARREF", "LPAREN", "RPAREN"}
    /\ Becomes(Known(UnexpectedBranch(St)))

CallReturn == pc = "expr" /\ LA = "EOF" /\ Becomes(Known(DrainAndReturn(St)))

ExprNext ==
    \/ CallIntLit
    \/ CallVarRef
    \/ CallLParen
    \/ CallRParen
    \/ CallOperator
    \/ CallUnexpected
    \/ CallReturn

ExprSpec == ExprInit /\ [][ExprNext]_vars

(***************************************************************************)
(* parse on the short streams of well-formed tokens, run to its end: the   *)
(* call chain is one thread that runs on until it returns or raises.       *)
(***************************************************************************)
FairAlphabet ==
    ExprAlphabet \cup {Token("PRINT", Some("x"), None, None), Token("INTDEC", Some("x"), None, None)}

(* The step leaves the stream, as far as it is known, one of at most
   MaxFairToks tokens of FairAlphabet that ends in EOF. *)
ShortStream ==
    /\ Len(toks') <= MaxFairToks
    /\ Len(toks') = MaxFairToks => toks'[MaxFairToks] = EOFTok
    /\ \A i \in 1..Len(toks') : toks'[i] \in FairAlphabet

FairInit == Init /\ toks[1] \in FairAlphabet

FairNext ==
    \/ ParsePrint /\ ShortStream
    \/ ParseIntDec /\ ShortStream
    \/ ParseAssign /\ ShortStream
    \/ ParseUnexpected /\ ShortStream
    \/ ExprIntLit /\ ShortStream
    \/ ExprVarRef /\ ShortStream
    \/ ExprLParen /\ ShortStream
    \/ ExprRParen /\ ShortStream
    \/ ExprOperator /\ ShortStream
    \/ ExprUnexpected /\ ShortStream
    \/ ExprReturn /\ ShortStream
    \/ AssignFinish /\ ShortStream

FairSpec == FairInit /\ [][FairNext]_vars /\ WF_vars(FairNext)

(***************************************************************************)
(* Vocabulary of the properties.                                           *)
(***************************************************************************)
LParenTok == Bare("LPAREN")
RParenTok == Bare("RPAREN")

(* The statement is an assignment whose ASSIGN has been read. *)
InAssignment == lhs # None

(* The expression tokens of the assignment that the parser has read, and the
   ones it has seen (the lookahead included). *)
ExprRead == SubSeq(toks, 3, pos)
ExprKnown == SubSeq(toks, 3, Len(toks))

(* The whole stream is known: its last token is the EOF. *)
StreamComplete == toks[Len(toks)] = EOFTok

(* The expression of a complete assignment stream, without the EOF. *)
ExprBody == SubSeq(toks, 3, Len(toks) - 1)

TypesOf(seq) == [i \in 1..Len(seq) |-> seq[i].tokentype]

(* An operand token parse_expression can turn into a leaf, and that leaf. *)
IsOperand(t) ==
    \/ t.tokentype = "INTLIT" /\ t.intvalue # None
    \/ t.tokentype = "VARREF"

Leaf(t) ==
    IF t.tokentype = "INTLIT" THEN IntLitNode(t.intvalue[1])
    ELSE VarRefNode(IF t.lexeme = None THEN "" ELSE t.lexeme[1])

(* Membership in E ::= INTLIT | VARREF | E op E | LPAREN E RPAREN, every
   operand carrying its payload. *)
RECURSIVE Derives(_, _, _, _)
Derives(seq, i, depth, wantOperand) ==
    IF i > Len(seq) THEN ~wantOperand /\ depth = 0
    ELSE LET t == seq[i]
         IN IF wantOperand
            THEN IF \/ t.tokentype = "INTLIT" /\ t.intvalue # None
                    \/ t.tokentype = "VARREF" /\ t.lexeme # None
                 THEN Derives(seq, i + 1, depth, FALSE)
                 ELSE t.tokentype = "LPAREN" /\ Derives(seq, i + 1, depth + 1, TRUE)
            ELSE IF t.tokentype \in operatortypes
                 THEN Derives(seq, i + 1, depth, TRUE)
                 ELSE /\ t.tokentype = "RPAREN"
                      /\ depth > 0
                      /\ Derives(seq, i + 1, depth - 1, FALSE)

IsExpression(seq) == Derives(seq, 1, 0, TRUE)

(* A well-formed single-statement stream ending in EOF. *)
WellFormedStatement(ts) ==
    /\ Len(ts) >= 2
    /\ ts[Len(ts)] = EOFTok
    /\ \/ Len(ts) = 2 /\ ts[1].tokentype \in {"PRINT", "INTDEC"} /\ ts[1].name # None
       \/ /\ Len(ts) >= 4
          /\ ts[1].tokentype = "VARREF" /\ ts[1].lexeme # None
          /\ ts[2].tokentype = "ASSIGN"
          /\ IsExpression(SubSeq(ts, 3, Len(ts) - 1))

RECURSIVE Wrap(_, _)
Wrap(e, k) == IF k = 0 THEN e ELSE Wrap(<<LParenTok>> \o e \o <<RParenTok>>, k - 1)

(***************************************************************************)
(* C1. Parenthesization round-trip: whenever parse_expression accepts an   *)
(* expression E, it accepts E wrapped in 1..MaxWrap pairs of parentheses   *)
(* too and returns the same AST.                                           *)
(***************************************************************************)
C1_ParenRoundTrip ==
    pc = "returned" =>
        \A k \in 1..MaxWrap :
            LET r == parse_expression(Wrap(ExprBody, k) \o <<EOFTok>>)
            IN r.pc = "returned" /\ r.rhs = rhs

(***************************************************************************)
(* C2. On every well-formed single-statement stream ending in EOF, parse   *)
(* returns one AST root and has consumed the whole stream, EOF included.   *)
(***************************************************************************)
C2_WellFormedAccepted ==
    (StreamComplete /\ WellFormedStatement(toks)) =>
        LET r == parse(toks)
        IN r.pc = "done" /\ r.ret # None /\ r.pos = Len(toks)

(* The expression read is the chain a op1 b op2 c of three operands. *)
IsChain ==
    /\ InAssignment
    /\ StreamComplete
    /\ pc # "expr"
    /\ Len(ExprBody) = 5
    /\ IsOperand(ExprBody[1]) /\ IsOperand(ExprBody[3]) /\ IsOperand(ExprBody[5])
    /\ ExprBody[2].tokentype \in operatortypes
    /\ ExprBody[4].tokentype \in operatortypes

(* The parser is part of the way through such a chain: what it has seen of
   the expression alternates operands and operators. *)
InChain ==
    /\ InAssignment
    /\ Len(ExprKnown) \in 1..5
    /\ \A i \in 1..Len(ExprKnown) :
          IF i % 2 = 1 THEN IsOperand(ExprKnown[i])
          ELSE ExprKnown[i].tokentype \in operatortypes

ChainOp1 == ExprBody[2].tokentype
ChainOp2 == ExprBody[4].tokentype

(* (a op1 b) op2 c and a op1 (b op2 c). *)
LeftNested ==
    BinOpNode(ChainOp2, BinOpNode(ChainOp1, Leaf(ExprBody[1]), Leaf(ExprBody[3])),
              Leaf(ExprBody[5]))
RightNested ==
    BinOpNode(ChainOp1, Leaf(ExprBody[1]),
              BinOpNode(ChainOp2, Leaf(ExprBody[3]), Leaf(ExprBody[5])))

(* The precedence table and the associativity as the specification gives
   them. *)
PrecOf(op) == IF op = "EXPONENT" THEN 3 ELSE IF op \in {"TIMES", "DIVIDE"} THEN 2 ELSE 1

(***************************************************************************)
(* C3. Precedence: a op1 b op2 c parses to a op1 (b op2 c) when op2 has    *)
(* strictly higher precedence than op1, and to (a op1 b) op2 c when op1    *)
(* has strictly higher precedence than op2.                                *)
(***************************************************************************)
C3_Precedence ==
    /\ InChain => pc = "expr"
    /\ (IsChain /\ PrecOf(ChainOp1) # PrecOf(ChainOp2)) =>
        rhs = Some(IF PrecOf(ChainOp2) > PrecOf(ChainOp1)
                   THEN RightNested ELSE LeftNested)

C3_Witness ==
    /\ IsChain
    /\ pc = "returned"
    /\ ChainOp1 = "PLUS" /\ ChainOp2 = "TIMES"
    /\ rhs = Some(RightNested)

(***************************************************************************)
(* C4. Associativity: a op1 b op2 c with operators of equal precedence     *)
(* parses to (a op1 b) op2 c for PLUS, MINUS, TIMES, DIVIDE and to         *)
(* a op1 (b op2 c) for EXPONENT.                                           *)
(***************************************************************************)
C4_Associativity ==
    /\ InChain => pc = "expr"
    /\ (IsChain /\ PrecOf(ChainOp1) = PrecOf(ChainOp2)) =>
        rhs = Some(IF ChainOp1 = "EXPONENT" THEN RightNested ELSE LeftNested)

C4_Witness ==
    /\ IsChain
    /\ pc = "returned"
    /\ ChainOp1 = "EXPONENT" /\ ChainOp2 = "EXPONENT"
    /\ rhs = Some(RightNested)
    /\ rhs # Some(LeftNested)

(***************************************************************************)
(* C5. Mismatched parentheses: whenever parse_expression accepts E, both   *)
(* `( E` and `E )` fail with the mismatched-parentheses error.             *)
(***************************************************************************)
Mismatched == <<"mismatched parentheses">>

C5_MismatchedParens ==
    pc = "returned" =>
        LET open == parse_expression(<<LParenTok>> \o ExprBody \o <<EOFTok>>)
            close == parse_expression(ExprBody \o <<RParenTok, EOFTok>>)
        IN /\ open.pc = "error" /\ open.err = Mismatched
           /\ close.pc = "error" /\ close.err = Mismatched

C5_Witness ==
    /\ pc = "returned"
    /\ TypesOf(ExprBody) = <<"INTLIT", "PLUS", "INTLIT">>
    /\ parse_expression(<<LParenTok>> \o ExprBody \o <<EOFTok>>).err = Mismatched
    /\ parse_expression(ExprBody \o <<RParenTok, EOFTok>>).err = Mismatched

(***************************************************************************)
(* C6. Empty or incomplete groups.  The expression `()` fails with the     *)
(* empty-group error at its RPAREN; the expression `(a op)` fails at its   *)
(* RPAREN too, with reduce's "expected operand or lparen after operator".  *)
(***************************************************************************)
GroupError == <<"expected lparen, intlit, or varref after lparen">>
OperandError == <<"expected operand or lparen after operator">>

(* The parser has read `( )`, or `( a op )`, as the start of the expression. *)
ReadEmptyGroup ==
    /\ InAssignment
    /\ pos >= 4
    /\ TypesOf(SubSeq(toks, 3, 4)) = <<"LPAREN", "RPAREN">>

ReadIncompleteGroup ==
    /\ InAssignment
    /\ pos >= 6
    /\ toks[3].tokentype = "LPAREN"
    /\ IsOperand(toks[4])
    /\ toks[5].tokentype \in operatortypes
    /\ toks[6].tokentype = "RPAREN"

(* The claim as stated: both fail with the empty-group error. *)
C6_Original ==
    (ReadEmptyGroup \/ ReadIncompleteGroup) => (pc = "error" /\ err = GroupError)

C6_GroupErrors ==
    /\ ReadEmptyGroup => (pc = "error" /\ err = GroupError /\ pos = 4)
    /\ ReadIncompleteGroup => (pc = "error" /\ err = OperandError /\ pos = 6)

C6_Witness ==
    /\ ReadIncompleteGroup
    /\ TypesOf(SubSeq(toks, 3, 6)) = <<"LPAREN", "INTLIT", "PLUS", "RPAREN">>
    /\ pc = "error"
    /\ err = OperandError

(***************************************************************************)
(* C7. Trailing garbage.  PRINT(name) or INTDEC(name) followed by a token  *)
(* other than EOF fails with expect's missing-EOF error.  An assignment    *)
(* VARREF ASSIGN E, E a complete expression, followed by one INTLIT,       *)
(* VARREF, ASSIGN, PRINT or INTDEC and then EOF fails too, but inside      *)
(* parse_expression, which runs on to EOF: parse_expression does not       *)
(* return, and no error of an assignment past its ASSIGN is the            *)
(* missing-EOF error.                                                      *)
(***************************************************************************)
MissingEOF(found) == <<"expected but found", "EOF", found>>

GarbageAfterSimple ==
    /\ pc # "parse"
    /\ toks[1].tokentype \in {"PRINT", "INTDEC"}
    /\ toks[1].name # None
    /\ Len(toks) >= 2
    /\ toks[2] # EOFTok

(* After the complete expression toks[3..n] comes one more token that is not
   EOF, and then, as far as the stream is known, the EOF. *)
GarbageAt(n) ==
    /\ \/ Len(toks) = n + 1
       \/ Len(toks) = n + 2 /\ toks[n + 2] = EOFTok
    /\ toks[n + 1].tokentype \in {"INTLIT", "VARREF", "ASSIGN", "PRINT", "INTDEC"}
    /\ IsExpression(SubSeq(toks, 3, n))

GarbageAfterAssign ==
    /\ InAssignment
    /\ toks[1].lexeme # None
    /\ \E n \in 3..(Len(toks) - 1) : GarbageAt(n)

(* The claim as stated: the failure is the missing-EOF error. *)
C7_Original ==
    (pc = "error" /\ (GarbageAfterSimple \/ GarbageAfterAssign)) =>
        (Len(err) = 3 /\ err[1] = "expected but found" /\ err[2] = "EOF")

C7_TrailingGarbage ==
    /\ GarbageAfterSimple => (pc = "error" /\ err = MissingEOF(toks[2].tokentype))
    /\ GarbageAfterAssign =>
          /\ pc \in {"expr", "error"}
          /\ rhs = None
          /\ pc = "error" => err[1] # "expected but found"
    /\ (InAssignment /\ pc = "error") => err[1] # "expected but found"

C7_Witness ==
    /\ GarbageAfterAssign
    /\ TypesOf(ExprKnown) =
           <<"LPAREN", "INTLIT", "PLUS", "INTLIT", "RPAREN", "INTLIT", "EOF">>
    /\ pc = "error"
    /\ err = <<"expression did not reduce to one AST">>

(***************************************************************************)
(* C8. Adjacent operands: once parse_expression has read an INTLIT with a  *)
(* value, or a VARREF, whose next token is not an operator, RPAREN or EOF, *)
(* the parse has failed with the adjacency error of that operand and no    *)
(* further token is read.                                                  *)
(***************************************************************************)
AdjacencyError(t) ==
    IF t.tokentype = "INTLIT"
    THEN <<"expected operator or rparen after int literal">>
    ELSE <<"expected operator or rparen after variable reference">>

MayFollowOperand(t) == t.tokentype \in operatortypes \cup {"RPAREN", "EOF"}

C8_AdjacentOperands ==
    InAssignment =>
        \A i \in 3..pos :
            (i + 1 <= Len(toks) /\ IsOperand(toks[i]) /\ ~MayFollowOperand(toks[i + 1]))
                => (pc = "error" /\ err = AdjacencyError(toks[i]) /\ pos = i)

C8_Witness ==
    /\ InAssignment
    /\ TypesOf(ExprKnown) = <<"INTLIT", "INTLIT">>
    /\ pos = 3
    /\ pc = "error"
    /\ err = <<"expected operator or rparen after int literal">>

(***************************************************************************)
(* C9. The parser never reads past EOF: no peek or read is issued once the *)
(* EOF has been consumed; the EOF is consumed only as the last token, by   *)
(* the dispatcher's trailing expect(EOF) of a successful parse; and        *)
(* parse_expression returns with the EOF as its lookahead.                 *)
(***************************************************************************)
C9_NeverPastEOF ==
    /\ ~pastEOF
    /\ \A i \in 1..pos :
          toks[i] = EOFTok => (i = pos /\ i = Len(toks) /\ pc = "done")
    /\ pc = "returned" => (pos + 1 = Len(toks) /\ toks[pos + 1] = EOFTok)

C9_Witness ==
    /\ pc = "done"
    /\ InAssignment
    /\ Len(ExprRead) >= 4
    /\ toks[pos] = EOFTok
    /\ ~pastEOF

(***************************************************************************)
(* C10. Missing payloads are never defaulted: parse returns no AST for a   *)
(* stream whose PRINT or INTDEC has no name, whose left-hand VARREF has no *)
(* lexeme, or whose expression holds an INTLIT without intvalue; the       *)
(* left-hand lexeme is checked only once parse_expression has returned.    *)
(***************************************************************************)
MissingPayload ==
    \/ toks[1].tokentype \in {"PRINT", "INTDEC"} /\ toks[1].name = None
    \/ toks[1].tokentype = "VARREF" /\ toks[1].lexeme = None
    \/ /\ InAssignment
       /\ \E i \in 3..Len(toks) :
              toks[i].tokentype = "INTLIT" /\ toks[i].intvalue = None

C10_NoDefaultedPayload ==
    /\ ret # None <=> pc = "done"
    /\ MissingPayload => (ret = None /\ pc # "done")
    /\ (pc # "parse" /\ toks[1].tokentype = "PRINT" /\ toks[1].name = None)
          => (pc = "error" /\ err = <<"malformed PRINT token">>)
    /\ (pc # "parse" /\ toks[1].tokentype = "INTDEC" /\ toks[1].name = None)
          => (pc = "error" /\ err = <<"malformed INTDEC token">>)
    /\ \A i \in 3..pos :
          (InAssignment /\ toks[i].tokentype = "INTLIT" /\ toks[i].intvalue = None)
              => (pc = "error" /\ err = <<"malformed INTLIT token">> /\ pos = i)
    /\ (pc = "error" /\ err = <<"malformed VARREF token on LHS">>) => rhs # None
    /\ (pc = "returned" /\ lhs[1].lexeme = None) => rhs # None

C10_Witness ==
    /\ pc = "error"
    /\ err = <<"malformed VARREF token on LHS">>
    /\ lhs[1].lexeme = None
    /\ rhs # None
    /\ ret = None

(***************************************************************************)
(* C11. Soundness of acceptance: every token sequence on which             *)
(* parse_expression returns a node is derivable from                       *)
(* E ::= INTLIT | VARREF | E op E | LPAREN E RPAREN.                       *)
(***************************************************************************)
(* Membership in the grammar by token kinds alone. *)
RECURSIVE InfixShape(_, _, _, _)
InfixShape(seq, i, depth, wantOperand) ==
    IF i > Len(seq) THEN ~wantOperand /\ depth = 0
    ELSE LET tt == seq[i].tokentype
         IN IF wantOperand
            THEN IF tt \in {"INTLIT", "VARREF"}
                 THEN InfixShape(seq, i + 1, depth, FALSE)
                 ELSE tt = "LPAREN" /\ InfixShape(seq, i + 1, depth + 1, TRUE)
            ELSE IF tt \in operatortypes
                 THEN InfixShape(seq, i + 1, depth, TRUE)
                 ELSE /\ tt = "RPAREN"
                      /\ depth > 0
                      /\ InfixShape(seq, i + 1, depth - 1, FALSE)

IsInfix(seq) == InfixShape(seq, 1, 0, TRUE)

C11_AcceptedIsInfix ==
    (InAssignment /\ pc = "returned") => IsInfix(ExprBody)

(***************************************************************************)
(* C12. Every BinOpNode built has one of the five arithmetic operators:    *)
(* no LPAREN marker is ever handed to reduce as the operator, so none      *)
(* becomes the operator of a node or of reduce's error message.            *)
(***************************************************************************)
RECURSIVE OperatorsOK(_)
OperatorsOK(n) ==
    CASE n.node = "BinOpNode" ->
             /\ n.op \in operatortypes
             /\ OperatorsOK(n.left)
             /\ OperatorsOK(n.right)
      [] n.node = "AssignNode" -> OperatorsOK(n.expr)
      [] OTHER -> TRUE

C12_BinOpOperators ==
    /\ \A i \in 1..Len(valstack) : OperatorsOK(valstack[i])
    /\ rhs # None => OperatorsOK(rhs[1])
    /\ ret # None => OperatorsOK(ret[1])
    /\ \A i \in 1..Len(opstack) : opstack[i] \in operatortypes \cup {"LPAREN"}
    /\ (pc = "error" /\ err[1] = "expected two operands for operator")
          => err[2] \in operatortypes

(* A tree of two nodes built while an LPAREN marker was on the stack. *)
C12_Witness ==
    /\ InAssignment
    /\ pc = "done"
    /\ \E i \in 1..Len(ExprBody) : ExprBody[i].tokentype = "LPAREN"
    /\ rhs[1].node = "BinOpNode"
    /\ rhs[1].right.node = "BinOpNode"
    /\ OperatorsOK(ret[1])

(***************************************************************************)
(* C13. Effect of reduce on the stacks of any reachable parser state: with *)
(* an operator marker and two values it removes the top marker op and the  *)
(* top two values (right on top, left below), pushes                       *)
(* BinOpNode(op, left, right) and leaves the rest of both stacks in place; *)
(* otherwise it raises and changes neither stack.                          *)
(***************************************************************************)
ReduceEffect(s) ==
    LET r == reduce(s)
        no == Len(s.opstack)
        nv == Len(s.valstack)
    IN IF no >= 1 /\ nv >= 2
       THEN /\ r.err = None
            /\ r.pc = s.pc
            /\ Len(r.opstack) = no - 1
            /\ \A i \in 1..(no - 1) : r.opstack[i] = s.opstack[i]
            /\ Len(r.valstack) = nv - 1
            /\ \A i \in 1..(nv - 2) : r.valstack[i] = s.valstack[i]
            /\ r.valstack[nv - 1] =
                   [node |-> "BinOpNode", op |-> s.opstack[no],
                    left |-> s.valstack[nv - 1], right |-> s.valstack[nv]]
            /\ r.lparen_depths = s.lparen_depths
            /\ r.pos = s.pos
       ELSE /\ r.pc = "error"
            /\ r.err # None
            /\ r.opstack = s.opstack
            /\ r.valstack = s.valstack
            /\ r.lparen_depths = s.lparen_depths

C13_ReduceEffect == pc = "expr" => ReduceEffect(St)

(* reduce on stacks that hold more than it takes, the two top values
   differing. *)
C13_Witness ==
    /\ pc = "expr"
    /\ Len(opstack) >= 2
    /\ Len(valstack) >= 3
    /\ valstack[Len(valstack)] # valstack[Len(valstack) - 1]
    /\ reduce(St).err = None
    /\ Len(reduce(St).valstack) = Len(valstack) - 1
    /\ Top(reduce(St).valstack).right = Top(valstack)

(***************************************************************************)
(* C14. An operator token right after an LPAREN token makes                *)
(* parse_expression fail when the operator is processed: with "expected    *)
(* two operands for operator X" if the value stack is empty, otherwise     *)
(* with the empty-group error; the operator is not pushed.                 *)
(***************************************************************************)
OperatorAfterLParen(i) ==
    /\ toks[i - 1].tokentype = "LPAREN"
    /\ toks[i].tokentype \in operatortypes

C14_OperatorAfterLParen ==
    InAssignment =>
        \A i \in 4..pos :
            OperatorAfterLParen(i) =>
                /\ pc = "error"
                /\ pos = i
                /\ err = IF Len(valstack) = 0
                         THEN <<"expected two operands for operator", toks[i].tokentype>>
                         ELSE GroupError
                /\ Top(opstack) = "LPAREN"

(* The case of a non-empty value stack: `a op ( op`. *)
C14_Witness ==
    /\ InAssignment
    /\ pos = 6
    /\ OperatorAfterLParen(6)
    /\ Len(valstack) = 1
    /\ pc = "error"
    /\ err = GroupError
    /\ opstack = <<toks[4].tokentype, "LPAREN">>

(***************************************************************************)
(* C15. Group isolation: while an LPAREN marker is on the operator stack,  *)
(* the value stack is at least as high as the depth recorded for the       *)
(* innermost open LPAREN.                                                  *)
(***************************************************************************)
GroupOpen == \E i \in 1..Len(opstack) : opstack[i] = "LPAREN"

C15_GroupIsolation ==
    (pc = "expr" /\ GroupOpen /\ Len(lparen_depths) > 0)
        => Len(valstack) >= Top(lparen_depths)

(***************************************************************************)
(* C16. lparen_depths is as long as the number of LPAREN markers on the    *)
(* operator stack in every state, so it is never popped when empty; and    *)
(* when parse_expression returns a node, the operator stack and            *)
(* lparen_depths are empty and the value stack held that node alone.       *)
(***************************************************************************)
Markers == {i \in 1..Len(opstack) : opstack[i] = "LPAREN"}

C16_DepthsMatchMarkers ==
    /\ Len(lparen_depths) = Cardinality(Markers)
    /\ pc = "error" => err # <<"IndexError: pop from empty list">>
    /\ rhs # None =>
          /\ opstack = <<>>
          /\ lparen_depths = <<>>
          /\ valstack = <<>>

C16_Witness ==
    /\ InAssignment
    /\ pc = "returned"
    /\ \E i \in 1..Len(ExprBody) : ExprBody[i].tokentype = "LPAREN"
    /\ rhs # None
    /\ opstack = <<>>
    /\ lparen_depths = <<>>
    /\ valstack = <<>>

(***************************************************************************)
(* C17. Termination and progress.  parse ends, returning a node or raising *)
(* a parse error.  An iteration of the main loop of parse_expression reads *)
(* exactly one token, except that on a token that cannot occur in an       *)
(* expression it raises without reading any; and each reduce loop shrinks  *)
(* the operator stack by one marker for each value it folds away.          *)
(***************************************************************************)
Terminated == pc \in {"done", "error"}

InIteration == pc = "expr" /\ LA # "EOF"

ExpressionKinds == operatortypes \cup {"INTLIT", "VARREF", "LPAREN", "RPAREN"}

(* The claim as stated: every iteration reads exactly one token. *)
C17_Original == [][InIteration => pos' = pos + 1]_vars

IterationProgress ==
    InIteration =>
        IF LA \in ExpressionKinds
        THEN pos' = pos + 1
        ELSE pos' = pos /\ pc' = "error"

(* The RPAREN loop pops the markers it reduces and then the LPAREN; the
   operator loop pops the markers it reduces before the one push; the drain
   empties the stack. *)
ReduceLoopsShrink ==
    /\ (pc = "expr" /\ LA = "RPAREN" /\ pc' = "expr") =>
          /\ Len(opstack') < Len(opstack)
          /\ Len(opstack) - Len(opstack') = 1 + (Len(valstack) - Len(valstack'))
    /\ (pc = "expr" /\ LA \in operatortypes /\ pc' = "expr") =>
          /\ Len(opstack') <= Len(opstack) + 1
          /\ Len(opstack) + 1 - Len(opstack') = Len(valstack) - Len(valstack')
    /\ (pc = "expr" /\ LA = "EOF" /\ pc' = "returned") =>
          /\ opstack' = <<>>
          /\ Len(opstack) = Len(valstack) - 1

C17_TerminationProgress ==
    /\ <>Terminated
    /\ [][IterationProgress]_vars
    /\ [][ReduceLoopsShrink]_vars

(* A parse that has ended after a reduce loop folded two operators. *)
C17_Witness ==
    /\ pc = "done"
    /\ pos = Len(toks)
    /\ Len(ExprBody) = 5
    /\ rhs[1].node = "BinOpNode"
    /\ rhs[1].left.node = "BinOpNode"

(***************************************************************************)
(* C18. Token preservation.  Whenever parse_expression returns a node, the *)
(* leaves of the node from left to right are the INTLIT and VARREF tokens  *)
(* it read, in input order and with their values and names; the node has   *)
(* as many BinOpNodes as operator tokens were read; and one more operand   *)
(* token was read than operator tokens.                                    *)
(***************************************************************************)
RECURSIVE Leaves(_)
Leaves(n) ==
    IF n.node = "BinOpNode" THEN Leaves(n.left) \o Leaves(n.right) ELSE <<n>>

RECURSIVE BinOps(_)
BinOps(n) ==
    IF n.node = "BinOpNode" THEN 1 + BinOps(n.left) + BinOps(n.right) ELSE 0

IsOperandTok(t) == t.tokentype \in {"INTLIT", "VARREF"}
IsOperatorTok(t) == t.tokentype \in operatortypes

OperandToks == SelectSeq(ExprRead, IsOperandTok)
OperatorToks == SelectSeq(ExprRead, IsOperatorTok)

C18_TokenPreservation ==
    (InAssignment /\ pc = "returned") =>
        /\ Leaves(rhs[1]) = [i \in 1..Len(OperandToks) |-> Leaf(OperandToks[i])]
        /\ BinOps(rhs[1]) = Len(OperatorToks)
        /\ Len(OperandToks) = Len(OperatorToks) + 1

(* A returned node with both kinds of leaf, a nameless variable among them,
   and a group in the input. *)
C18_Witness ==
    /\ InAssignment
    /\ pc = "returned"
    /\ BinOps(rhs[1]) = 2
    /\ Leaves(rhs[1]) = <<VarRefNode("x"), IntLitNode(1), VarRefNode("")>>
    /\ \E i \in 1..Len(ExprRead) : ExprRead[i].tokentype = "LPAREN"

(***************************************************************************)
(* C19. Within parse_expression reduce is never invoked with an empty      *)
(* operator stack nor with an empty value stack: a value stack that is not *)
(* empty stays so until the return pops the result, and an operator is     *)
(* pushed only onto a parse that has a value; so the only error reduce     *)
(* raises is "expected operand or lparen after operator".                  *)
(***************************************************************************)
(* The states on which the loop of the RPAREN branch (lines 110-120)
   invokes reduce. *)
RECURSIVE RParenCalls(_)
RParenCalls(s) ==
    IF Len(s.opstack) = 0 \/ Top(s.opstack) = "LPAREN" THEN {}
    ELSE LET r == reduce(s)
         IN {s} \cup (IF r.err # None THEN {} ELSE RParenCalls(r))

(* The states on which the loop of the operator branch (lines 131-140)
   invokes reduce. *)
RECURSIVE OperatorCalls(_, _)
OperatorCalls(s, incoming) ==
    IF Len(s.opstack) > 0 /\ Top(s.opstack) \in operatortypes
    THEN LET top == Top(s.opstack)
         IN IF \/ precedence(top) > precedence(incoming)
               \/ (precedence(top) = precedence(incoming) /\ leftassoc(top))
            THEN LET r == reduce(s)
                 IN {s} \cup (IF r.err # None THEN {} ELSE OperatorCalls(r, incoming))
            ELSE {}
    ELSE {}

(* The states on which the drain (lines 147-150) invokes reduce. *)
RECURSIVE DrainCalls(_)
DrainCalls(s) ==
    IF Len(s.opstack) = 0 \/ Top(s.opstack) = "LPAREN" THEN {}
    ELSE LET r == reduce(s)
         IN {s} \cup (IF r.err # None THEN {} ELSE DrainCalls(r))

(* The operator branch raises before its loop (lines 125-129). *)
OperatorRefused ==
    \/ Len(valstack) = 0
    \/ /\ Len(opstack) > 0 /\ Top(opstack) = "LPAREN"
       /\ Len(lparen_depths) > 0
       /\ Len(valstack) = Top(lparen_depths)

(* The invocations of reduce in the step parse_expression takes next. *)
ReduceCalls ==
    IF pc # "expr" THEN {}
    ELSE IF LA = "RPAREN" THEN RParenCalls(St)
    ELSE IF LA \in operatortypes
    THEN IF OperatorRefused THEN {} ELSE OperatorCalls(St, LA)
    ELSE IF LA = "EOF" THEN DrainCalls(St)
    ELSE {}

OperandShortage == <<"expected operand or lparen after operator">>

ReduceCallsOK ==
    \A r \in ReduceCalls :
        /\ Len(r.opstack) >= 1
        /\ Len(r.valstack) >= 1
        /\ reduce(r).err \in {None, OperandShortage}

(* Until the return pops the result, a value stack that is not empty stays
   so. *)
ValuesStay == (Len(valstack) > 0 /\ pc' # "returned") => Len(valstack') > 0

(* An operator is pushed only when there is a value. *)
PushNeedsValue ==
    (pc = "expr" /\ LA \in operatortypes /\ pc' = "expr") =>
        /\ Top(opstack') = LA
        /\ Len(valstack) > 0
        /\ Len(valstack') > 0

C19_ReduceOperands ==
    /\ []ReduceCallsOK
    /\ [][ValuesStay]_vars
    /\ [][PushNeedsValue]_vars

(* The drain is about to invoke reduce twice, the second time one operand
   short; and reducing has left the value stack with one value. *)
C19_Witness ==
    /\ pc = "expr"
    /\ LA = "EOF"
    /\ Cardinality(ReduceCalls) = 2
    /\ \E r \in ReduceCalls : reduce(r).err = OperandShortage
    /\ \E r \in ReduceCalls : reduce(r).err = None /\ Len(reduce(r).valstack) = 1

====
